---- MODULE Spec2Model ----
(***************************************************************************)
(* A model of httpland/chain-handler: the function chain() and its inner   *)
(* async function run(), the nextHandler closure, and the Chain builder.   *)
(* Request and Response objects live in a heap of instances, so that       *)
(* clone() yields a new instance with equal content and an alias would be  *)
(* visible.  JavaScript's run-to-completion is kept: the frames on `stack` *)
(* execute synchronously, and a suspended async function resumes only when *)
(* the stack is empty.                                                     *)
(***************************************************************************)
EXTENDS Integers, Sequences, FiniteSets, TLC

\* Longest handler sequence given to the Chain constructor / chain().
MaxLen == 2
\* Number of top-level chain() / Chain.respond() calls made by the caller.
MaxCalls == 2

\* Number of values of chain.handlers the caller reads and keeps.
MaxViews == 2

\* State of a promise / of a reference that holds no object.
Pending == 0
Rejected == -1

VARIABLES
  handlers,   \* Chain.#handlers: the array the builder holds (a reference)
  arrays,     \* the handler arrays: array id -> its elements
  views,      \* the values of chain.handlers the caller has read and kept
  registered, \* the constructor's and next()'s arguments so far, in order
  fluent,     \* what the last call of Chain.next returned
  heap,       \* Request / Response instances: instance id -> content
  evs,        \* the top-level calls made so far (one record per call)
  frames,     \* the activations of run(), in the order they were entered
  stack,      \* the JavaScript call stack: frames executing synchronously
  mq          \* the microtask queue: continuations of settled promises

vars == <<handlers, arrays, views, registered, fluent, heap, evs, frames, stack, mq>>

\* The builder and what the caller holds of it.
builder == <<handlers, arrays, views, registered, fluent>>

(***************************************************************************)
(* Handlers.  The entries of a handler sequence are handler functions of   *)
(* the shapes the tests and the README use, or a non-callable value.       *)
(***************************************************************************)
\* () => new Response(...): cuts the chain off.
\* () => initResponse: returns an instance the caller holds.
\* (_, next) => next()
\* (request, next) => { request.headers.append(..); return next() }
\* (request, next) => { request.headers.append(..); return next(request) }
\* (_, next) => next(new Request("http://proxy"))
\* async (_, next) => { const r = await next(); r.headers.append(..); return r }
\* async (_, next) => { await next(); return next() }
\* () => { throw new Error() }
\* async (_, next) => { try { return await next() } catch { return new Response() } }
\* (_, next) => { next(); return new Response() }
\* async (_, next) => { await io; return next() }
\* undefined (falsy, not callable);  a truthy value that is not callable
FnKinds == {"respond", "retInit", "pass", "mutPass", "mutFwd", "fwdNew",
            "resProxy", "twice", "throw", "catch", "forget", "suspend"}
Kinds == FnKinds \cup {"undef", "nonfn"}

\* JavaScript truthiness and callability of a handler-sequence entry.
Truthy(k) == k # "undef"
Callable(k) == k \in FnKinds

\* All sequences over S of length at most n.
SeqsUpTo(S, n) == UNION {[1..m -> S] : m \in 0..n}

\* The operation a handler of kind k performs at program counter pc, where
\* got is the outcome of the next() it awaited last: a rejected `await next()`
\* throws, which ends every handler but the one that catches.
Op(k, pc, got) ==
  CASE got = Rejected -> "ret"
    [] k \in {"respond", "retInit", "throw"} -> "ret"
    [] k \in {"pass", "mutPass", "mutFwd", "fwdNew", "resProxy", "catch", "forget"} ->
         IF pc = 0 THEN "call" ELSE "ret"
    [] k = "twice" -> IF pc \in {0, 1} THEN "call" ELSE "ret"
    [] k = "suspend" -> IF pc = 0 THEN "io" ELSE IF pc = 1 THEN "call" ELSE "ret"
    [] OTHER -> "ret"

\* Whether the handler awaits (or returns) the promise of the next() it calls.
Awaits(k) == k # "forget"

\* The handler is not async and returns the promise of next() itself: run()'s
\* `await first(..)` waits on that very promise.
ReturnsPromise(k) == k \in {"pass", "mutPass", "mutFwd", "fwdNew"}

(***************************************************************************)
(* The heap of Request / Response instances.  An operation that creates an *)
(* instance yields the new heap and the instance's id.                     *)
(***************************************************************************)
Content(ty, tag, n) == [type |-> ty, tag |-> <<tag, n>>, hdr |-> {}]
NoContent == Content("none", "none", 0)

\* new Request(..) / new Response(..)
Alloc(h, c) == [heap |-> Append(h, c), id |-> Len(h) + 1]

\* Request.clone() / Response.clone(): a new instance with equal content.
Clone(h, id) == Alloc(h, h[id])

\* headers.append(name, value) on instance id; the name stands for the handler.
AppendHeader(h, id, name) == [h EXCEPT ![id].hdr = @ \cup {name}]

\* The instances the caller holds before any call: initResponse, initRequest.
InitResponse == 1
InitRequest == 2

(***************************************************************************)
(* run(): one activation of the inner async function of chain().           *)
(***************************************************************************)
\* The record of an activation of run() that has not done anything yet.
NewFrame(e, pos, par, via, hs, rq, rs, given, givenc) ==
  [ev |-> e, pos |-> pos, par |-> par, via |-> via, handlers |-> hs,
   kind |-> IF hs = <<>> THEN "end" ELSE Head(hs),
   creq |-> rq, cres |-> rs, given |-> given, givenc |-> givenc,
   invoked |-> FALSE, req |-> Pending, recv |-> NoContent,
   pc |-> 0, st |-> "done", wait |-> Pending, got |-> Pending, nexts |-> 0,
   sent |-> NoContent, ret |-> Pending, out |-> Pending, nres |-> Pending]

\* Bug: the array of every nested run() of a call counts as seen.
seenNested(e) == {fid \in 1..(Len(frames) + 1) : e <= Len(evs)}

\* const seen = new WeakSet(): the arrays added to it.  Nothing is ever added.
seen(e) == {}

\* Bug: the tail skips a handler.
restSkipsOne(hs) == IF Len(hs) >= 2 THEN Tail(Tail(hs)) ELSE <<>>

\* const [first, ...rest] = handlers
rest(hs) == Tail(hs)

\* Bug: the response is returned itself, not a clone of it.
runFallbackNoClone(h, fr) == [heap |-> h, frame |-> [fr EXCEPT !.out = fr.cres]]

\* return response.clone(): the activation returns at once with a clone of the
\* response it was given.
runFallback(h, fr) ==
  LET c == Clone(h, fr.cres)
  IN [heap |-> c.heap, frame |-> [fr EXCEPT !.out = c.id]]

\* Bug: the head handler is handed run()'s own request.
handlerRequestNoClone(h, fr) == [heap |-> h, id |-> fr.creq]

\* request.clone(), the request handed to the head handler.
handlerRequest(h, fr) == Clone(h, fr.creq)

\* Bug: run() does not await the head handler: it resolves with a clone of the
\* response it was given as soon as it has invoked the handler.
runNoAwait(h, fid, fr) ==
  IF fr.handlers = <<>> \/ ~Truthy(Head(fr.handlers)) THEN runFallback(h, fr)
  ELSE LET c == handlerRequest(h, fr)
           d == Clone(c.heap, fr.cres)
       IN IF Callable(Head(fr.handlers))
          THEN [heap |-> d.heap,
                frame |-> [fr EXCEPT !.invoked = TRUE, !.req = c.id,
                                     !.recv = c.heap[c.id], !.st = "ready", !.out = d.id]]
          ELSE [heap |-> c.heap, frame |-> [fr EXCEPT !.ret = Rejected, !.out = Rejected]]

\* Bug: run() leaves the head handler to be invoked later, and nobody does.
runDeferred(h, fid, fr) == [heap |-> h, frame |-> fr]

\* run(request, response, ...handlers) up to the invocation of the head
\* handler.  fid is the identity of this call's handlers array, fr the frame
\* holding its arguments.  Yields the heap after the clones and the frame.
run(h, fid, fr) ==
  IF fid \in seen(fr.ev) THEN runFallback(h, fr)
  ELSE IF fr.handlers = <<>> \/ ~Truthy(Head(fr.handlers)) THEN runFallback(h, fr)
  ELSE
    \* first(request.clone(), nextHandler)
    LET c == handlerRequest(h, fr)
    IN IF Callable(Head(fr.handlers))
       THEN [heap |-> c.heap,
             frame |-> [fr EXCEPT !.invoked = TRUE, !.req = c.id,
                                  !.recv = c.heap[c.id], !.st = "ready"]]
       \* calling a value that is not a function throws a TypeError
       ELSE [heap |-> c.heap, frame |-> [fr EXCEPT !.ret = Rejected, !.out = Rejected]]

\* Bug: run() returns a clone of its response, not of the handler's.
runReturnsFallback(h, fr, v) ==
  IF v = Rejected THEN [heap |-> h, id |-> Rejected] ELSE Clone(h, fr.cres)

\* Bug: a handler's failure is replaced by the fallback response.
runReturnSwallows(h, fr, v) == Clone(h, IF v = Rejected THEN fr.cres ELSE v)

\* Bug: run() returns what the handler returned, itself.
runReturnNoClone(h, fr, v) == [heap |-> h, id |-> v]

\* return (await first(request.clone(), nextHandler)).clone()
\* v is what the handler of activation fr returned, Rejected when it threw.
runReturn(h, fr, v) ==
  IF v = Rejected THEN [heap |-> h, id |-> Rejected] ELSE Clone(h, v)

\* Bug: the request passed to next() is ignored.
nextRequestIgnoresArg(fr, arg) == fr.creq

\* (nextRequest = request): the request next() proceeds with; arg is the
\* request the handler passed, Pending when it passed none.
nextRequestOf(fr, arg) == IF arg = Pending THEN fr.creq ELSE arg

\* Bug: the rest is taken from the builder's array as it is when next() is
\* called, not from the arguments run() was called with.
restOfLive(fr) == SubSeq(arrays[handlers], fr.pos + 1, Len(arrays[handlers]))

\* The rest of the handlers of activation fr of run().
restOf(fr) == rest(fr.handlers)

\* Bug: every call works on the response of the latest call.
nextResponseShared(fr) == frames[evs[Len(evs)].root].cres

\* Bug: next() hands down the response the handler got from an earlier next().
nextResponseFromHandler(fr) == IF fr.got \in {Pending, Rejected} THEN fr.cres ELSE fr.got

\* The `response` nextHandler closes over: the parameter of this run().
nextResponseOf(fr) == fr.cres

\* nextHandler, up to its await: run(nextRequest.clone(), response.clone(), ...rest)
\* f, fr: the calling activation; cid: the activation of run() it starts.
nextHandler(h, cid, f, fr, arg) ==
  LET nextRequest == nextRequestOf(fr, arg)
      c1 == Clone(h, nextRequest)
      c2 == Clone(c1.heap, nextResponseOf(fr))
  IN run(c2.heap, cid,
         NewFrame(fr.ev, fr.pos + 1, f, IF arg = Pending THEN "noarg" ELSE "arg",
                  restOf(fr), c1.id, c2.id, arg,
                  IF arg = Pending THEN NoContent ELSE h[arg]))

\* Bug: next() resolves with the fallback when the rest of the chain failed.
nextReturnSwallows(h, fr, v) == Clone(h, IF v = Rejected THEN fr.cres ELSE v)

\* nextHandler, after its await: (await run(..)).clone()
\* v is what activation fr of run() returned, Rejected when it rejected.
nextReturn(h, fr, v) ==
  IF v = Rejected THEN [heap |-> h, id |-> Rejected] ELSE Clone(h, v)

\* The frames that leave the call stack when control returns: a frame that is
\* not executing (it awaits, or it has returned) hands control to its caller.
RECURSIVE Unwind(_, _)
Unwind(stk, frs) ==
  IF stk = <<>> THEN stk
  ELSE IF frs[stk[Len(stk)]].st = "ready" THEN stk
  ELSE Unwind(SubSeq(stk, 1, Len(stk) - 1), frs)

Top == stack[Len(stack)]

\* Bug: the promise of run() never wakes up who awaits it.
SettledNever(fid, fr) == <<>>

\* The continuation that the promise of activation fid of run() schedules once
\* run() has returned: nextHandler's (its `await run(..)`), or the caller's.
Settled(fid, fr) ==
  IF fr.out = Pending THEN <<>>
  ELSE IF fr.via = "top" THEN <<[job |-> "deliver", id |-> fr.ev]>>
  ELSE <<[job |-> "settle", id |-> fid]>>

\* The caller awaits every call before making the next one.
AllDelivered == \A e \in 1..Len(evs) : evs[e].result # Pending

(***************************************************************************)
(* The entry points.                                                       *)
(***************************************************************************)
\* get handlers(): the array the builder holds, itself.
GetHandlers == handlers

\* ...this.handlers: the elements of the builder's array, spread as arguments.
SpreadHandlers == arrays[GetHandlers]

\* chain(initRequest, initResponse, ...handlers), called directly.
CallChain ==
  /\ stack = <<>>
  /\ Len(evs) < MaxCalls
  /\ mq = <<>>
  /\ AllDelivered
  /\ LET e == Len(evs) + 1
         fid == Len(frames) + 1
         r == run(heap, fid,
                  NewFrame(e, 1, 0, "top", SpreadHandlers, InitRequest, InitResponse,
                           Pending, NoContent))
     IN /\ heap' = r.heap
        /\ frames' = Append(frames, r.frame)
        /\ stack' = Unwind(<<fid>>, frames')
        /\ mq' = mq \o Settled(fid, r.frame)
        /\ evs' = Append(evs, [api |-> "chain", fb |-> InitResponse, dflt |-> Pending,
                               handlers |-> SpreadHandlers, held |-> registered,
                               root |-> fid, result |-> Pending])
  /\ UNCHANGED builder

\* Bug: the default passed by the caller is ignored.
defaultResponseIgnoresArg(h, withDefault) == Alloc(h, Content("res", "default", 404))

\* defaultResponse ??= new Response(null, { status: 404 })
\* The caller passes initResponse as the default, or none.
defaultResponseOf(h, withDefault) ==
  IF withDefault THEN [heap |-> h, id |-> InitResponse]
  ELSE Alloc(h, Content("res", "default", 404))

\* Chain.respond(initRequest) and Chain.respond(initRequest, initResponse).
respondCall(withDefault) ==
  /\ stack = <<>>
  /\ Len(evs) < MaxCalls
  /\ LET e == Len(evs) + 1
         fid == Len(frames) + 1
         \* const newRequest = new Request(request)
         newRequest == Alloc(heap, heap[InitRequest])
         defaultResponse == defaultResponseOf(newRequest.heap, withDefault)
         \* chain(newRequest.clone(), defaultResponse.clone(), ...this.handlers)
         c1 == Clone(defaultResponse.heap, newRequest.id)
         c2 == Clone(c1.heap, defaultResponse.id)
         r == run(c2.heap, fid,
                  NewFrame(e, 1, 0, "top", SpreadHandlers, c1.id, c2.id,
                           Pending, NoContent))
     IN /\ heap' = r.heap
        /\ frames' = Append(frames, r.frame)
        /\ stack' = Unwind(<<fid>>, frames')
        /\ mq' = mq \o Settled(fid, r.frame)
        /\ evs' = Append(evs, [api |-> "respond",
                               fb |-> IF withDefault THEN InitResponse ELSE Pending,
                               dflt |-> IF withDefault THEN Pending ELSE defaultResponse.id,
                               handlers |-> SpreadHandlers, held |-> registered,
                               root |-> fid, result |-> Pending])
  /\ UNCHANGED builder

\* await chain.respond(..): called when the calls before it have been delivered.
respond(withDefault) ==
  /\ mq = <<>>
  /\ AllDelivered
  /\ respondCall(withDefault)

Respond == \E withDefault \in BOOLEAN : respond(withDefault)

\* chain.respond(..) called while an earlier call is in flight, or none is.
RespondConcurrently ==
  /\ Cardinality({e \in 1..Len(evs) : evs[e].result = Pending}) <= 1
  /\ \E withDefault \in BOOLEAN : respondCall(withDefault)

(***************************************************************************)
(* The steps of a handler.                                                 *)
(***************************************************************************)
\* The request a handler of frame fr passes to next(), after the mutation it
\* makes to its own request: [heap, id], id Pending for next().
NextArgument(h, fr) ==
  CASE fr.kind = "mutPass" -> [heap |-> AppendHeader(h, fr.req, fr.pos), id |-> Pending]
    [] fr.kind = "mutFwd" -> [heap |-> AppendHeader(h, fr.req, fr.pos), id |-> fr.req]
    [] fr.kind = "fwdNew" -> Alloc(h, Content("req", "proxy", fr.pos))
    [] OTHER -> [heap |-> h, id |-> Pending]

\* The handler on top of the stack calls next() / next(request).
HandlerCallNext ==
  /\ stack # <<>>
  /\ LET f == Top
         fr == frames[f]
         cid == Len(frames) + 1
         a == NextArgument(heap, fr)
         n == nextHandler(a.heap, cid, f, fr, a.id)
     IN /\ fr.st = "ready"
        /\ Op(fr.kind, fr.pc, fr.got) = "call"
        /\ heap' = n.heap
        /\ frames' = Append([frames EXCEPT ![f] =
                               [fr EXCEPT !.pc = @ + 1, !.nexts = @ + 1, !.wait = cid,
                                          !.sent = a.heap[fr.req],
                                          !.st = IF Awaits(fr.kind) THEN "await"
                                                 ELSE "ready"]],
                            n.frame)
        /\ stack' = Unwind(Append(stack, cid), frames')
        /\ mq' = mq \o Settled(cid, n.frame)
  /\ UNCHANGED <<builder, evs>>

\* The handler on top of the stack awaits something outside the chain.
HandlerAwaitIo ==
  /\ stack # <<>>
  /\ LET f == Top
         fr == frames[f]
     IN /\ fr.st = "ready"
        /\ Op(fr.kind, fr.pc, fr.got) = "io"
        /\ frames' = [frames EXCEPT ![f] = [fr EXCEPT !.pc = @ + 1, !.st = "io"]]
        /\ stack' = Unwind(stack, frames')
  /\ UNCHANGED <<builder, heap, evs, mq>>

\* What the handler of frame fr returns: [heap, id], id Rejected when it throws.
HandlerResult(h, fr) ==
  CASE fr.kind = "respond" -> Alloc(h, Content("res", "handler", fr.pos))
    [] fr.kind = "retInit" -> [heap |-> h, id |-> InitResponse]
    [] fr.kind = "throw" -> [heap |-> h, id |-> Rejected]
    [] fr.kind = "forget" -> Alloc(h, Content("res", "forget", fr.pos))
    [] fr.kind = "catch" /\ fr.got = Rejected -> Alloc(h, Content("res", "recovered", fr.pos))
    [] fr.kind = "resProxy" /\ fr.got # Rejected ->
         [heap |-> AppendHeader(h, fr.got, fr.pos), id |-> fr.got]
    [] OTHER -> [heap |-> h, id |-> fr.got]

\* The handler throws inside the call first(..), before run() awaits anything:
\* run() rejects at once.  A handler that fails after its own await yields a
\* rejected promise instead, which run() awaits.
ThrowsInCall(fr) == fr.kind = "throw"

\* The handler on top of the stack returns or throws.  run() awaits what the
\* handler returned: it goes on in a later microtask.  For a handler that
\* returned the promise of next() this step records how that promise settled;
\* run()'s continuation was queued when it did.
HandlerReturn ==
  /\ stack # <<>>
  /\ LET f == Top
         fr == frames[f]
         hr == HandlerResult(heap, fr)
     IN /\ fr.st = "ready"
        /\ Op(fr.kind, fr.pc, fr.got) = "ret"
        /\ heap' = hr.heap
        /\ frames' = [frames EXCEPT ![f] =
                        [fr EXCEPT !.ret = hr.id, !.st = "done",
                                   !.out = IF ThrowsInCall(fr) THEN Rejected ELSE @]]
        /\ stack' = Unwind(stack, frames')
        /\ mq' = mq \o (IF ThrowsInCall(fr) THEN Settled(f, frames'[f])
                         ELSE IF ReturnsPromise(fr.kind) /\ fr.pc > 0 THEN <<>>
                         ELSE <<[job |-> "return", id |-> f]>>)
  /\ UNCHANGED <<builder, evs>>

(***************************************************************************)
(* The event loop: resumptions of suspended async functions.               *)
(***************************************************************************)
\* What a handler awaited outside the chain completes (a later task).
IoDone ==
  /\ stack = <<>>
  /\ mq = <<>>
  /\ \E f \in 1..Len(frames) :
       /\ frames[f].st = "io"
       /\ frames' = [frames EXCEPT ![f].st = "ready"]
       /\ stack' = <<f>>
  /\ UNCHANGED <<builder, heap, evs, mq>>

\* run() resumes after `await first(..)` and returns the clone of what the
\* handler returned, or rejects as the handler's promise did.
RunReturn ==
  /\ stack = <<>>
  /\ mq # <<>>
  /\ Head(mq).job = "return"
  /\ LET f == Head(mq).id
         rr == runReturn(heap, frames[f], frames[f].ret)
     IN /\ heap' = rr.heap
        /\ frames' = [frames EXCEPT ![f].out = rr.id]
        /\ mq' = Tail(mq) \o Settled(f, frames'[f])
  /\ UNCHANGED <<builder, evs, stack>>

\* nextHandler resumes after `await run(..)` and returns the clone; the
\* handler that awaits this next() is scheduled to resume.  When the handler
\* returned this promise to run(), run() is what awaits it: its continuation
\* is scheduled here, one microtask after the promise is settled.
NextSettle ==
  /\ stack = <<>>
  /\ mq # <<>>
  /\ Head(mq).job = "settle"
  /\ LET c == Head(mq).id
         p == frames[c].par
         nr == nextReturn(heap, frames[c], frames[c].out)
     IN /\ heap' = nr.heap
        /\ frames' = [frames EXCEPT ![c].nres = nr.id]
        /\ mq' = Tail(mq) \o
                 (IF frames[p].st = "await" /\ frames[p].wait = c
                  THEN <<[job |-> "resume", id |-> p]>> \o
                       (IF ReturnsPromise(frames[p].kind)
                        THEN <<[job |-> "return", id |-> p]>> ELSE <<>>)
                  ELSE <<>>)
  /\ UNCHANGED <<builder, evs, stack>>

\* A handler resumes with the outcome of the next() it awaits.
Resume ==
  /\ stack = <<>>
  /\ mq # <<>>
  /\ Head(mq).job = "resume"
  /\ LET f == Head(mq).id
     IN /\ frames' = [frames EXCEPT ![f].got = frames[frames[f].wait].nres,
                                    ![f].st = "ready"]
        /\ stack' = <<f>>
        /\ mq' = Tail(mq)
  /\ UNCHANGED <<builder, heap, evs>>

\* The caller of chain() / respond() receives the outcome of the root run().
Deliver ==
  /\ stack = <<>>
  /\ mq # <<>>
  /\ Head(mq).job = "deliver"
  /\ LET e == Head(mq).id
     IN evs' = [evs EXCEPT ![e].result = frames[evs[e].root].out]
  /\ mq' = Tail(mq)
  /\ UNCHANGED <<builder, heap, frames, stack>>

(***************************************************************************)
(* The specification.                                                      *)
(***************************************************************************)
\* The entries of the sequences Spec is checked over: every handler awaits or
\* returns the promise of each next() it calls.
AwaitingKinds == {k \in Kinds : Awaits(k)}

\* The builder, the only Chain there is.
TheChain == 1

\* new Chain(...init): the builder holds the array of its arguments.
Constructed(S) ==
  /\ arrays \in {<<init>> : init \in SeqsUpTo(S, MaxLen)}
  /\ handlers = 1
  /\ views = <<>>
  /\ registered = arrays[1]
  /\ fluent = Pending

Init ==
  /\ Constructed(AwaitingKinds)
  /\ heap = <<Content("res", "init", 200), Content("req", "init", 0)>>
  /\ evs = <<>>
  /\ frames = <<>>
  /\ stack = <<>>
  /\ mq = <<>>

Next ==
  \/ CallChain
  \/ Respond
  \/ HandlerCallNext
  \/ HandlerAwaitIo
  \/ HandlerReturn
  \/ RunReturn
  \/ IoDone
  \/ NextSettle
  \/ Resume
  \/ Deliver

Spec == Init /\ [][Next]_vars

\* Handlers that await what they call, and one that drops the promise of next().
DropKinds == {"forget", "suspend", "pass", "respond", "throw", "catch"}

InitDrop ==
  /\ Constructed(DropKinds)
  /\ heap = <<Content("res", "init", 200), Content("req", "init", 0)>>
  /\ evs = <<>>
  /\ frames = <<>>
  /\ stack = <<>>
  /\ mq = <<>>

\* The calls over every handler sequence, those with a handler that calls
\* next and drops the promise included.
SpecDrop == InitDrop /\ [][Next]_vars

\* Handlers that call next not at all, once, twice, or after a suspension, and
\* that fail or recover.
FairKinds == {"respond", "pass", "twice", "suspend", "throw", "catch"}

InitFair ==
  /\ Constructed(FairKinds)
  /\ heap = <<Content("res", "init", 200), Content("req", "init", 0)>>
  /\ evs = <<>>
  /\ frames = <<>>
  /\ stack = <<>>
  /\ mq = <<>>

\* The event loop runs every job that is queued, and what a handler awaits
\* outside the chain completes.
SpecFair == InitFair /\ [][Next]_vars /\ WF_vars(Next)

(***************************************************************************)
(* The builder: Chain.next, the handlers getter, and a caller that keeps   *)
(* what it read.                                                           *)
(***************************************************************************)
\* The handlers the builder is fed with in the builder specifications.
BuilderKinds == {"pass", "respond"}

\* Longest sequence the builder comes to hold.
MaxStored == MaxLen + MaxLen

\* Bug: the arguments are pushed onto the stored array itself.
pushInPlace(arr, a, hs) == [arrays |-> [arr EXCEPT ![a] = @ \o hs], id |-> a]

\* this.#handlers.concat(handlers): a new array, the old one is left as it is.
concat(arr, a, hs) == [arrays |-> Append(arr, arr[a] \o hs), id |-> Len(arr) + 1]

\* Bug: next() returns another builder.
nextReturnsNewChain(this) == this + 1

\* return this
nextReturnsThis(this) == this

\* Chain.next(...hs)
next(hs) ==
  /\ stack = <<>>
  /\ Len(arrays[handlers]) + Len(hs) <= MaxStored
  /\ LET c == concat(arrays, handlers, hs)
     IN /\ arrays' = c.arrays
        /\ handlers' = c.id
  /\ registered' = registered \o hs
  /\ fluent' = nextReturnsThis(TheChain)
  /\ UNCHANGED <<views, heap, evs, frames, stack, mq>>

ChainNext == \E hs \in SeqsUpTo(BuilderKinds, MaxLen) \ {<<>>} : next(hs)

\* const view = chain.handlers, kept by the caller.
ReadHandlers ==
  /\ stack = <<>>
  /\ mq = <<>>
  /\ AllDelivered
  /\ Len(views) < MaxViews
  /\ views' = Append(views, [ref |-> GetHandlers, read |-> arrays[GetHandlers]])
  /\ UNCHANGED <<handlers, arrays, registered, fluent, heap, evs, frames, stack, mq>>

InitBuilder ==
  /\ Constructed(BuilderKinds)
  /\ heap = <<Content("res", "init", 200), Content("req", "init", 0)>>
  /\ evs = <<>>
  /\ frames = <<>>
  /\ stack = <<>>
  /\ mq = <<>>

NextBuilder ==
  \/ ChainNext
  \/ ReadHandlers

\* Construction, appends and reads of handlers.
SpecBuilder == InitBuilder /\ [][NextBuilder]_vars

\* What a caller can do to an array it holds: push, pop, or assign element 0.
Mutations(a) ==
  {Append(a, k) : k \in {x \in BuilderKinds : Len(a) < MaxStored}}
    \cup {SubSeq(a, 1, Len(a) - 1) : n \in {x \in {1} : Len(a) > 0}}
    \cup {[a EXCEPT ![1] = k] : k \in {x \in BuilderKinds : Len(a) > 0}}

\* (view as ChainableHandler[]).push(h) and the like: `readonly` is a
\* compile-time type only, the array the getter returned is an ordinary one.
MutateView ==
  /\ stack = <<>>
  /\ mq = <<>>
  /\ AllDelivered
  /\ \E v \in 1..Len(views) : \E a \in Mutations(arrays[views[v].ref]) \ {arrays[views[v].ref]} :
       /\ arrays[views[v].ref] = views[v].read
       /\ arrays' = [arrays EXCEPT ![views[v].ref] = a]
  /\ UNCHANGED <<handlers, views, registered, fluent, heap, evs, frames, stack, mq>>

NextViews ==
  \/ ReadHandlers
  \/ MutateView
  \/ Respond
  \/ HandlerCallNext
  \/ HandlerReturn
  \/ RunReturn
  \/ NextSettle
  \/ Resume
  \/ Deliver

\* The builder in the hands of a caller that mutates what it read.
SpecViews == InitBuilder /\ [][NextViews]_vars

\* The handlers the builder is constructed with in the concurrent calls.
ConcKinds == {"suspend", "resProxy"}

\* chain.next(handler) called while a respond() is in flight.
NextInFlight ==
  /\ ~AllDelivered
  /\ Len(arrays[handlers]) < MaxLen
  /\ \E k \in BuilderKinds : next(<<k>>)

InitConc ==
  /\ Constructed(ConcKinds)
  /\ heap = <<Content("res", "init", 200), Content("req", "init", 0)>>
  /\ evs = <<>>
  /\ frames = <<>>
  /\ stack = <<>>
  /\ mq = <<>>

NextConc ==
  \/ NextInFlight
  \/ RespondConcurrently
  \/ HandlerCallNext
  \/ HandlerAwaitIo
  \/ HandlerReturn
  \/ RunReturn
  \/ IoDone
  \/ NextSettle
  \/ Resume
  \/ Deliver

\* respond() calls in flight together, and appends in between.
SpecConc == InitConc /\ [][NextConc]_vars

(***************************************************************************)
(* Vocabulary of the properties.                                           *)
(***************************************************************************)
Calls == 1..Len(evs)
Frames == 1..Len(frames)

\* The call has delivered a response / a failure to its caller.
Responded(e) == evs[e].result \notin {Pending, Rejected}
Failed(e) == evs[e].result = Rejected

\* The activations of call e in which the handler at position i was invoked.
Invocations(e, i) == {f \in Frames : frames[f].ev = e /\ frames[f].pos = i
                                     /\ frames[f].invoked}
\* The next() calls made by the invocations of the handler at position i.
RECURSIVE SumNexts(_)
SumNexts(S) == IF S = {} THEN 0
               ELSE LET f == CHOOSE x \in S : TRUE
                    IN frames[f].nexts + SumNexts(S \ {f})
NextCalls(e, i) == SumNexts(Invocations(e, i))

\* Handlers that call next exactly once and return its result untouched.
PassOnce == {"pass", "mutPass", "mutFwd", "fwdNew", "suspend"}
\* Handlers that return the result of a next() call untouched.
PassThrough == PassOnce \cup {"twice"}
\* Handlers that return a response without calling next.
CutOff == {"respond", "retInit"}

AllIn(hs, S) == \A i \in 1..Len(hs) : hs[i] \in S

\* C1: the response chain() / respond() yields is never the instance of the
\* fallback response passed in, and it has the fallback's content when no
\* handler produced a response (empty sequence, or pass-through handlers only).
C1_IdentityIsolation ==
  \A e \in Calls :
    (Responded(e) /\ evs[e].fb # Pending) =>
      /\ evs[e].result # evs[e].fb
      /\ AllIn(evs[e].handlers, PassThrough) => heap[evs[e].result] = heap[evs[e].fb]

\* chain(request, initResponse) with no handler has delivered its response.
C1_Witness ==
  \E e \in Calls : /\ Responded(e) /\ evs[e].api = "chain"
                   /\ evs[e].handlers = <<>>
                   /\ heap[evs[e].result] = heap[InitResponse]

\* C2: once a handler has returned without calling next, no handler at a
\* later position is invoked in that call; and when the handlers before a
\* handler that cuts the chain off pass its response back untouched, the
\* call's result has the content of the response that handler returned.
C2_ShortCircuit ==
  \A e \in Calls :
    /\ \A i \in 1..Len(evs[e].handlers) :
         NextCalls(e, i) = 0 =>
           \A g \in Frames : (frames[g].ev = e /\ frames[g].pos > i) => ~frames[g].invoked
    /\ \A f \in Frames :
         ( /\ frames[f].ev = e /\ frames[f].invoked /\ frames[f].kind \in CutOff
           /\ evs[e].result # Pending
           /\ AllIn(SubSeq(evs[e].handlers, 1, frames[f].pos - 1), PassThrough) )
         => /\ Responded(e)
            /\ heap[evs[e].result] = heap[frames[f].ret]

\* A call over [pass, respond, ..] has ended: the second handler cut it off.
C2_Witness ==
  \E e \in Calls, f \in Frames :
    /\ Responded(e) /\ frames[f].ev = e /\ frames[f].pos = MaxLen
    /\ frames[f].kind = "respond" /\ frames[f].invoked
    /\ evs[e].handlers[1] = "pass"
    /\ heap[evs[e].result].tag = <<"handler", MaxLen>>

\* A sequence of handler functions, all but the last calling next once.
Delegating(hs) ==
  /\ hs # <<>>
  /\ AllIn(hs, FnKinds)
  /\ AllIn(SubSeq(hs, 1, Len(hs) - 1), PassOnce)

\* C3: when every handler before the last calls next exactly once and
\* returns its result untouched, every handler is invoked exactly once (never
\* more, at any time), in registration order, each inside its predecessor's
\* call to next, and the result has the content of what the last returned.
C3_Delegation ==
  \A e \in Calls :
    Delegating(evs[e].handlers) =>
      /\ \A i \in 1..Len(evs[e].handlers) : Cardinality(Invocations(e, i)) <= 1
      /\ \A f \in Frames :
           (frames[f].ev = e /\ frames[f].invoked /\ frames[f].pos > 1) =>
             /\ frames[f].par < f
             /\ frames[frames[f].par].ev = e
             /\ frames[frames[f].par].invoked
             /\ frames[frames[f].par].pos = frames[f].pos - 1
             /\ frames[f].kind = evs[e].handlers[frames[f].pos]
      /\ evs[e].result # Pending =>
           /\ \A i \in 1..Len(evs[e].handlers) : Cardinality(Invocations(e, i)) = 1
           /\ \A f \in Invocations(e, Len(evs[e].handlers)) :
                /\ frames[f].ret # Pending
                /\ frames[f].ret = Rejected <=> Failed(e)
                /\ frames[f].ret # Rejected => heap[evs[e].result] = heap[frames[f].ret]

\* A call over MaxLen handlers, all but the last passing through, has ended
\* with the last handler's response.
C3_Witness ==
  \E e \in Calls :
    /\ Responded(e) /\ Len(evs[e].handlers) = MaxLen
    /\ Delegating(evs[e].handlers)
    /\ evs[e].handlers[MaxLen] = "respond"
    /\ Cardinality(Invocations(e, MaxLen)) = 1
    /\ heap[evs[e].result].tag = <<"handler", MaxLen>>

\* C4: a handler invoked by next() (no argument) receives a request whose
\* content is what the calling handler received, whatever the calling handler
\* did to its own request before the call; at every position.
C4_NoMutationLeak ==
  \A f \in Frames :
    (frames[f].invoked /\ frames[f].via = "noarg") =>
      /\ frames[f].recv = frames[frames[f].par].recv
      /\ frames[f].req # frames[frames[f].par].req

\* A handler appended a header to its request and called next(); the next
\* handler was invoked.
C4_Witness ==
  \E f \in Frames :
    /\ frames[f].invoked /\ frames[f].via = "noarg"
    /\ frames[frames[f].par].kind = "mutPass"
    /\ heap[frames[frames[f].par].req].hdr # {}
    /\ frames[f].recv.hdr = {}

\* C5: a handler invoked by next(r) receives a request with the content r
\* had at the call, in an instance other than r; what the receiving handler
\* does to its request afterwards does not show in r.
C5_ExplicitForwarding ==
  \A f \in Frames :
    (frames[f].invoked /\ frames[f].via = "arg") =>
      /\ frames[f].recv = frames[f].givenc
      /\ frames[f].req # frames[f].given
      /\ heap[frames[f].given] = frames[f].givenc

\* next(request) was called with the caller's mutated request; the receiving
\* handler saw the mutation and then mutated its own instance.
C5_Witness ==
  \E f \in Frames :
    /\ frames[f].invoked /\ frames[f].via = "arg"
    /\ frames[frames[f].par].kind = "mutFwd"
    /\ frames[f].recv.hdr = {frames[f].pos - 1}
    /\ frames[f].kind = "mutPass"
    /\ heap[frames[f].req].hdr = {frames[f].pos - 1, frames[f].pos}

\* C6: within one top-level call the handlers of a tail sequence run at most
\* one pass: a tail entered again (a handler calling next twice) yields a
\* clone of the response without invoking a handler again.
C6_ReentryCap ==
  \A e \in Calls : \A i \in 1..Len(evs[e].handlers) :
    Cardinality(Invocations(e, i)) <= 1

\* The ancestors of activation f: the activations whose next() led to it.
RECURSIVE Upstream(_)
Upstream(f) == IF frames[f].par = 0 THEN {}
               ELSE {frames[f].par} \cup Upstream(frames[f].par)

\* The handler of activation f has thrown or rejected.
HandlerFailed(f) == frames[f].invoked /\ frames[f].ret = Rejected

\* C7: when the handler invoked by an activation of run() throws or rejects,
\* what that activation delivers to its immediate caller (the caller of
\* chain / respond, or the handler that awaits next()) is the failure, never a
\* response, and the handler is not invoked again: a position is never
\* invoked more often than the position before it called next.
C7_FailureNotSwallowed ==
  \A f \in Frames :
    HandlerFailed(f) =>
      /\ frames[f].out \in {Pending, Rejected}
      /\ frames[f].nres \in {Pending, Rejected}
      /\ (frames[f].via = "top" /\ evs[frames[f].ev].result # Pending)
           => Failed(frames[f].ev)
      /\ \A p \in Frames :
           (frames[p].wait = f /\ frames[p].st # "await" /\ Awaits(frames[p].kind))
             => frames[p].got = Rejected
      /\ Cardinality(Invocations(frames[f].ev, frames[f].pos)) <=
           IF frames[f].pos = 1 THEN 1
           ELSE NextCalls(frames[f].ev, frames[f].pos - 1)

\* A handler threw, and the handler before it, which awaited next() in a try
\* block, resumed with that failure (and went on to answer the call).
C7_Witness ==
  \E f \in Frames :
    /\ HandlerFailed(f) /\ frames[f].kind = "throw" /\ frames[f].par # 0
    /\ frames[frames[f].par].kind = "catch"
    /\ frames[frames[f].par].got = Rejected
    /\ Responded(frames[f].ev)

\* C8 as stated: if any handler invoked during a call fails, the call ends in
\* failure and yields no response, whatever the other handlers do.
C8_AllOrNothing ==
  \A e \in Calls :
    (evs[e].result # Pending /\ \E f \in Frames : frames[f].ev = e /\ HandlerFailed(f))
      => Failed(e)

\* Handlers that return the outcome of the next() they call, failure included.
Propagating == PassThrough \cup {"resProxy"}

\* C8 amended: if a handler invoked during a call fails and every handler
\* upstream of it returns the outcome of its call to next (it neither catches
\* the failure nor drops the promise), the call ends in failure.
C8_FailurePropagates ==
  \A e \in Calls : \A f \in Frames :
    ( /\ frames[f].ev = e /\ HandlerFailed(f)
      /\ \A p \in Upstream(f) : frames[p].kind \in Propagating
      /\ evs[e].result # Pending )
    => Failed(e)

\* The last of MaxLen handlers threw, the ones before it pass through, and
\* the call has failed.
C8_Witness ==
  \E e \in Calls, f \in Frames :
    /\ frames[f].ev = e /\ frames[f].kind = "throw" /\ frames[f].pos = MaxLen
    /\ HandlerFailed(f)
    /\ \A p \in Upstream(f) : frames[p].kind \in Propagating
    /\ Failed(e)

\* C9: an activation of run() whose head entry is not a callable handler
\* ends in an error: it neither produces a response nor skips the handlers
\* after the entry.
C9_MisuseSurfaced ==
  \A f \in Frames :
    (frames[f].handlers # <<>> /\ ~Callable(Head(frames[f].handlers))) =>
      frames[f].out = Rejected

\* C10: respond(request) without a default, over handlers that all pass
\* through (or none), yields an empty response with status 404 in an instance
\* of its own: not the default constructed inside respond, not an instance
\* the caller holds, not the result of another call.  With a default
\* supplied, the result has the content of the supplied default.
C10_DefaultFallback ==
  \A e \in Calls :
    (evs[e].api = "respond" /\ Responded(e)) =>
      /\ evs[e].result \notin {evs[e].dflt, evs[e].fb, InitResponse}
      /\ \A d \in Calls \ {e} : evs[d].result # evs[e].result
      /\ AllIn(evs[e].handlers, PassThrough) =>
           IF evs[e].fb = Pending
           THEN heap[evs[e].result] = Content("res", "default", 404)
           ELSE heap[evs[e].result] = heap[evs[e].fb]

\* Over MaxLen pass-through handlers, a respond(request) got a 404 and a
\* respond(request, initResponse) got the content of initResponse.
C10_Witness ==
  \E e, d \in Calls :
    /\ Responded(e) /\ Responded(d)
    /\ evs[e].api = "respond" /\ evs[d].api = "respond"
    /\ evs[e].fb = Pending /\ evs[d].fb = InitResponse
    /\ Len(evs[e].handlers) = MaxLen /\ AllIn(evs[e].handlers, PassOnce)
    /\ heap[evs[e].result] = Content("res", "default", 404)
    /\ heap[evs[d].result] = heap[InitResponse]

\* C11: after construction and any appends the builder's handlers are the
\* constructor's arguments followed by all appended arguments, in call and
\* argument order; an append returns the same builder; and a value of
\* handlers read before an append shows the old sequence after it.
C11_AppendOrdering ==
  /\ arrays[GetHandlers] = registered
  /\ fluent \in {Pending, TheChain}
  /\ \A v \in 1..Len(views) :
       /\ arrays[views[v].ref] = views[v].read
       /\ \E n \in 0..Len(registered) : views[v].read = SubSeq(registered, 1, n)

\* An append of two handlers after a read: the value read is shorter than
\* what the builder holds now.
C11_Witness ==
  /\ fluent = TheChain
  /\ \E v \in 1..Len(views) :
       /\ views[v].ref # handlers
       /\ Len(arrays[handlers]) >= Len(views[v].read) + 2
       /\ Len(views[v].read) > 0

\* C12: mutating the value obtained from Chain.handlers does not change the
\* builder's stored sequence: a later read shows the constructor's and the
\* appended arguments only, and a later respond() evaluates just those.
C12_ReadOnlyView ==
  /\ arrays[GetHandlers] = registered
  /\ \A e \in Calls :
       \E n \in 0..Len(registered) : evs[e].handlers = SubSeq(registered, 1, n)

\* The activations of run() that belong to call e.
FramesOf(e) == {f \in Frames : frames[f].ev = e}

\* A response, as opposed to a promise not settled or a failure.
IsResponse(v) == v \notin {Pending, Rejected}

\* C15: what a handler returns is cloned before anyone else sees it: the
\* value the upstream handler obtains from awaiting next(), and the value the
\* caller of chain() / respond() obtains, are never the instance the
\* downstream handler returned, and have its content.
C15_ResponseDuplication ==
  /\ \A f \in Frames :
       (IsResponse(frames[f].ret) /\ IsResponse(frames[f].nres)) =>
         /\ frames[f].nres # frames[f].ret
         /\ \/ heap[frames[f].nres] = heap[frames[f].ret]
            \* the upstream handler has altered the value it obtained, since
            \/ /\ frames[frames[f].par].kind = "resProxy"
               /\ frames[frames[f].par].ret = frames[f].nres
               /\ heap[frames[f].nres] =
                    [heap[frames[f].ret] EXCEPT !.hdr = @ \cup {frames[frames[f].par].pos}]
  /\ \A e \in Calls :
       (Responded(e) /\ IsResponse(frames[evs[e].root].ret)) =>
         /\ evs[e].result # frames[evs[e].root].ret
         /\ heap[evs[e].result] = heap[frames[evs[e].root].ret]

\* A handler that returned a response of its own to a handler that awaited
\* next(); the call has delivered its result.
C15_Witness ==
  \E f \in Frames :
    /\ frames[f].kind = "respond" /\ frames[f].par # 0
    /\ IsResponse(frames[f].nres)
    /\ frames[frames[f].par].got = frames[f].nres
    /\ Responded(frames[f].ev)
    /\ heap[evs[frames[f].ev].result].tag = <<"handler", frames[f].pos>>

\* The fallback response chain() was given for call e.
FallbackOf(e) == frames[evs[e].root].cres

\* C16: the response an activation of run() works with always has the content
\* of the fallback given to chain(): handlers cannot hand a response down.  So
\* the next() of the last handler yields a clone of the fallback, and a call
\* over handlers that all return the result of next() untouched yields a
\* response with the fallback's content.
C16_PassThroughFallback ==
  \A e \in Calls :
    /\ \A f \in FramesOf(e) :
         /\ heap[frames[f].cres] = heap[FallbackOf(e)]
         /\ (frames[f].handlers = <<>> /\ frames[f].out # Pending) =>
              /\ frames[f].out \notin {frames[f].cres, FallbackOf(e)}
              /\ heap[frames[f].out] = heap[FallbackOf(e)]
         /\ ( /\ frames[f].handlers = <<>> /\ frames[f].par # 0
              /\ frames[frames[f].par].got # Pending
              /\ frames[frames[f].par].wait = f
              /\ frames[frames[f].par].kind \in PassThrough ) =>
              /\ frames[frames[f].par].got \notin {frames[f].cres, FallbackOf(e)}
              /\ heap[frames[frames[f].par].got] = heap[FallbackOf(e)]
    /\ (Responded(e) /\ AllIn(evs[e].handlers, PassThrough)) =>
         heap[evs[e].result] = heap[FallbackOf(e)]

\* A call over MaxLen pass-through handlers has delivered; its last handler
\* got its response from a next() that had no handler left.
C16_Witness ==
  \E e \in Calls, f \in Frames :
    /\ Responded(e) /\ AllIn(evs[e].handlers, PassThrough)
    /\ Len(evs[e].handlers) = MaxLen
    /\ frames[f].ev = e /\ frames[f].handlers = <<>> /\ frames[f].pos = MaxLen + 1
    /\ frames[frames[f].par].got = frames[f].nres
    /\ heap[evs[e].result] = heap[FallbackOf(e)]

\* C20: in a call over handler functions the head handler is invoked exactly
\* once and the handler at position i+1 is invoked as many times as the
\* invocations of the handler at position i have called next; a next call of
\* the last handler invokes no handler and yields a clone of the fallback.
C20_InvocationCounting ==
  \A e \in Calls :
    AllIn(evs[e].handlers, FnKinds) =>
      LET n == Len(evs[e].handlers)
          beyond == {f \in FramesOf(e) : frames[f].pos = n + 1}
      IN /\ n > 0 => Cardinality(Invocations(e, 1)) = 1
         /\ \A i \in 1..(n - 1) : Cardinality(Invocations(e, i + 1)) = NextCalls(e, i)
         /\ n > 0 => Cardinality(beyond) = NextCalls(e, n)
         /\ \A f \in beyond :
              /\ ~frames[f].invoked
              /\ IsResponse(frames[f].out)
              /\ frames[f].out # FallbackOf(e)
              /\ heap[frames[f].out] = heap[FallbackOf(e)]
         /\ \A f \in FramesOf(e) : frames[f].pos <= n + 1

\* The first handler has called next twice, the second, the last one, once in
\* each of its two invocations; the call has delivered.
C20_Witness ==
  \E e \in Calls :
    /\ Responded(e)
    /\ Len(evs[e].handlers) = 2
    /\ evs[e].handlers[1] = "twice"
    /\ NextCalls(e, 1) = 2
    /\ Cardinality(Invocations(e, 2)) = 2
    /\ NextCalls(e, 2) = 2
    /\ Cardinality({f \in FramesOf(e) : frames[f].pos = 3}) = 2

\* The handler invocations activation f is nested in, f included.
Nesting(f) == {g \in Upstream(f) \cup {f} : frames[g].invoked}

\* C19: each next() evaluates a sequence one element shorter than the one
\* its handler belongs to, so the handler invocations nested in one another
\* are never more than the sequence is long; and every call begun is
\* eventually delivered to its caller.
C19_BoundedRecursion ==
  /\ [](\A f \in Frames :
          /\ frames[f].par # 0 =>
               /\ Len(frames[f].handlers) = Len(frames[frames[f].par].handlers) - 1
               /\ frames[f].handlers = SubSeq(evs[frames[f].ev].handlers, frames[f].pos,
                                              Len(evs[frames[f].ev].handlers))
          /\ Cardinality(Nesting(f)) <= Len(evs[frames[f].ev].handlers)
          /\ Len(stack) <= MaxLen + 1)
  /\ (~AllDelivered) ~> AllDelivered

\* A call over MaxLen handlers has been delivered after its last handler was
\* invoked, nested in all the others.
C19_Witness ==
  \E f \in Frames :
    /\ frames[f].invoked /\ frames[f].pos = MaxLen
    /\ Cardinality(Nesting(f)) = MaxLen
    /\ Len(evs[frames[f].ev].handlers) = MaxLen
    /\ evs[frames[f].ev].result # Pending

\* chain() of call e has not returned to its caller yet: the root run() is
\* on the stack and has not been suspended so far.
InChain(e) ==
  LET r == frames[evs[e].root]
  IN /\ stack # <<>>
     /\ stack[1] = evs[e].root
     /\ r.got = Pending
     /\ ~(r.kind = "suspend" /\ r.pc > 0)

\* The handler at position i is reached: every handler before it calls next,
\* at once or after it has awaited something else.
Reached(hs, i) == \A j \in 1..(i - 1) : \E pc \in {0, 1} : Op(hs[j], pc, Pending) = "call"

\* C18: when chain() returns its pending promise the head handler has been
\* invoked; a handler run() is called for by next() is invoked inside that
\* next(); and over handlers that do not suspend before they call next, every
\* handler the chain reaches has been invoked by the time chain() returns.
C18_EagerStart ==
  /\ \A e \in Calls :
       (~InChain(e) /\ AllIn(evs[e].handlers, FnKinds)) =>
         /\ evs[e].handlers # <<>> => frames[evs[e].root].invoked
         /\ ~("suspend" \in {evs[e].handlers[i] : i \in 1..Len(evs[e].handlers)}) =>
              \A i \in 1..Len(evs[e].handlers) :
                Reached(evs[e].handlers, i) => Invocations(e, i) # {}
  /\ \A f \in Frames :
       (frames[f].handlers # <<>> /\ Head(frames[f].handlers) \in FnKinds) =>
         frames[f].invoked

\* chain() has returned over MaxLen handlers that pass through, the caller
\* has not got the result, and the last handler has been invoked.
C18_Witness ==
  \E e \in Calls :
    /\ ~InChain(e) /\ evs[e].result = Pending /\ stack = <<>>
    /\ Len(evs[e].handlers) = MaxLen
    /\ AllIn(evs[e].handlers, PassOnce \ {"suspend"})
    /\ Invocations(e, MaxLen) # {}

\* The handler of activation f is not running: it was never invoked, or it
\* has returned or thrown.
Completed(f) == frames[f].invoked => frames[f].ret # Pending

\* The activations of run() started beneath activation f, f included.
Beneath(f) == {g \in Frames : g = f \/ f \in Upstream(g)}

\* C17: a chain() / respond() call, and each next() call, delivers its result
\* only after every handler invocation started beneath it has completed.
C17_AwaitsFully ==
  /\ \A e \in Calls :
       evs[e].result # Pending => \A f \in FramesOf(e) : Completed(f)
  /\ \A f \in Frames :
       frames[f].nres # Pending => \A g \in Beneath(f) : Completed(g)

\* C17, amended: when every handler beneath awaits or returns the promise of
\* each next() it calls, a chain() / respond() call, and each next() call,
\* delivers its result only after every handler invocation started beneath it
\* has completed.
C17_AwaitsWhenAwaited ==
  /\ \A e \in Calls :
       (evs[e].result # Pending /\ AllIn(evs[e].handlers, AwaitingKinds)) =>
         \A f \in FramesOf(e) : Completed(f)
  /\ \A f \in Frames :
       (frames[f].nres # Pending /\ AllIn(frames[f].handlers, AwaitingKinds)) =>
         \A g \in Beneath(f) : Completed(g)

\* A call whose last handler awaited something outside the chain has been
\* delivered, after the next() that led to that handler was.
C17_Witness ==
  \E e \in Calls, f \in Frames :
    /\ Responded(e) /\ AllIn(evs[e].handlers, AwaitingKinds)
    /\ frames[f].ev = e /\ frames[f].pos = MaxLen /\ frames[f].kind = "suspend"
    /\ frames[f].invoked /\ IsResponse(frames[f].ret)
    /\ IsResponse(frames[f].nres)

\* C13: a respond() call evaluates the sequence the builder held when it
\* was called: every activation of run() of the call works on a suffix of
\* that sequence, whatever has been appended since, so no handler appended
\* while the call is in flight is invoked by it.
C13_SnapshotAtCallStart ==
  \A e \in Calls :
    /\ evs[e].handlers = evs[e].held
    /\ \A f \in FramesOf(e) :
         /\ frames[f].pos <= Len(evs[e].held) + 1
         /\ frames[f].handlers = SubSeq(evs[e].held, frames[f].pos, Len(evs[e].held))
         /\ frames[f].invoked => frames[f].kind = evs[e].held[frames[f].pos]

\* A call has been delivered after it went through all its handlers, the last
\* of them invoked after a later call had started over a longer sequence:
\* the append came while the first call was in flight.
C13_Witness ==
  \E e, d \in Calls : \E f, g \in Frames :
    /\ e < d /\ Len(evs[e].held) < Len(evs[d].held)
    /\ frames[f].ev = e /\ frames[g].ev = d /\ g < f
    /\ frames[f].pos = Len(evs[e].held) + 1
    /\ Responded(e)

\* The content of the response a call over hs yields when it runs alone, the
\* head of hs at position pos and fb the content of the fallback.
RECURSIVE Alone(_, _, _)
Alone(hs, pos, fb) ==
  IF hs = <<>> THEN fb
  ELSE CASE Head(hs) = "respond" -> Content("res", "handler", pos)
         [] Head(hs) = "resProxy" ->
              [Alone(Tail(hs), pos + 1, fb) EXCEPT !.hdr = @ \cup {pos}]
         [] OTHER -> Alone(Tail(hs), pos + 1, fb)

\* The request and response instances the activations of call e work with.
Own(e) ==
  UNION {{frames[f].creq, frames[f].cres, frames[f].req, frames[f].got,
          frames[f].ret, frames[f].out, frames[f].nres} : f \in FramesOf(e)}
    \ {Pending, Rejected}

\* C14: respond() calls in flight together are independent: the instances
\* the handlers of one call are given and get back belong to that call alone,
\* none is the caller's, and the result of each call has the content it has
\* when the call runs alone.
C14_ConcurrentIndependence ==
  \A e \in Calls :
    /\ Own(e) \cap {InitRequest, InitResponse} = {}
    /\ \A d \in Calls \ {e} : Own(e) \cap Own(d) = {}
    /\ \A f \in FramesOf(e) : heap[frames[f].cres] = heap[FallbackOf(e)]
    /\ evs[e].result # Pending =>
         /\ Responded(e)
         /\ evs[e].result \in Own(e)
         /\ heap[evs[e].result] = Alone(evs[e].handlers, 1, heap[FallbackOf(e)])

\* Two calls with different fallbacks were in flight together, the handlers
\* of the second invoked before the first call went on, and both have been
\* delivered a response that went through a handler that alters it.
C14_Witness ==
  \E e, d \in Calls : \E f, g \in Frames :
    /\ e < d /\ Responded(e) /\ Responded(d)
    /\ heap[FallbackOf(e)] # heap[FallbackOf(d)]
    /\ frames[f].ev = e /\ frames[g].ev = d /\ g < f /\ frames[f].invoked
    /\ heap[evs[e].result].hdr # {} /\ heap[evs[d].result].hdr # {}

====
